---- MODULE Spec2Model ----
(***************************************************************************)
(* Model of src/main.py: the bilingual newspaper pipeline.                 *)
(*                                                                         *)
(* Strings that end up in the HTML document are sequences of tokens; the   *)
(* substrings main.py searches for (the four placeholders, the two sponsor *)
(* containers, the body tag) are single tokens, so str.replace is a        *)
(* replace-all over a token sequence.                                      *)
(***************************************************************************)
EXTENDS Integers, Sequences, FiniteSets, TLC

VARIABLES
    pc,               \* position of the process in the main workflow
    lang,             \* language of the run in progress ("English" | "Hindi")
    runs,             \* languages whose run has started, in order
    crash,            \* where an uncaught exception ended the process
    api_key,          \* os.getenv('GEMINI_API_KEY') is set
    sponsors_file,    \* sponsors.json as found on disk
    gold_sponsors,    \* main: gold_sponsors
    silver_sponsors,  \* main: silver_sponsors
    sponsor_reads,    \* number of times sponsors.json was opened
    feedWorld,        \* what feedparser.parse answers for each URL
    rss_urls,         \* get_fresh_news: rss_urls
    max_articles,     \* get_fresh_news: max_articles
    fi,               \* get_fresh_news: index of the URL the loop is at
    articles,         \* get_fresh_news: articles
    run_articles,     \* main: english_articles / hindi_articles
    fetchLog,         \* URLs handed to feedparser.parse, in call order
    an_articles,      \* get_ai_analysis: articles
    language,         \* get_ai_analysis: language
    ai,               \* get_ai_analysis: index of the article the loop is at
    analyzed_content, \* get_ai_analysis: analyzed_content
    gen_seen,         \* outcome of each iteration of get_ai_analysis so far
    genLog,           \* article links handed to model.generate_content
    analyzed_articles,\* main: analyzed_english_articles / analyzed_hindi_articles
    template_str,     \* template.html as found on disk
    today_date_str,   \* generate_newspaper_html: today_date_str
    final_html,       \* main: final_english_html / final_hindi_html
    html_calls,       \* arguments of each generate_newspaper_html call
    pdfLog            \* file names written by convert_html_to_pdf, in order

vars == <<pc, lang, runs, crash, api_key, sponsors_file, gold_sponsors,
          silver_sponsors, sponsor_reads, feedWorld, rss_urls, max_articles,
          fi, articles, run_articles, fetchLog, an_articles, language, ai,
          analyzed_content, gen_seen, genLog, analyzed_articles, template_str,
          today_date_str, final_html, html_calls, pdfLog>>

mainVars    == <<lang, runs, crash, api_key>>
sponsorVars == <<sponsors_file, gold_sponsors, silver_sponsors, sponsor_reads>>
fetchVars   == <<feedWorld, rss_urls, max_articles, fi, articles, run_articles,
                 fetchLog>>
aiVars      == <<an_articles, language, ai, analyzed_content, gen_seen, genLog,
                 analyzed_articles>>
htmlVars    == <<template_str, today_date_str, final_html, html_calls>>

(***************************************************************************)
(* Bounds of the model.                                                    *)
(***************************************************************************)
MaxSources     == 2   \* longest rss_urls list given to get_fresh_news alone
MaxEntries     == 8   \* most entries a feed carries
MaxFailAt      == 2   \* latest entry whose attributes may be unreadable
MaxArticlesArg == 15  \* largest max_articles given to get_fresh_news alone
MaxAnalysisIn  == 3   \* longest article list given to get_ai_analysis alone
MaxSponsors    == 2   \* longest sponsor list of a tier
MaxFragments   == 2   \* most fragments given to generate_newspaper_html alone
MainEntries    == 1   \* entries of a reachable feed in the main workflow

(***************************************************************************)
(* Program constants.                                                      *)
(***************************************************************************)
PerSourceCap       == 7
DefaultMaxArticles == 20

ENGLISH_RSS_FEEDS ==
    << "https://www.thehindu.com/feeder/default.rss",
       "https://indianexpress.com/feed/",
       "https://www.indiatoday.in/rss/1206584" >>

HINDI_RSS_FEEDS ==
    << "https://feeds.bbci.co.uk/hindi/rss.xml",
       "https://www.jagran.com/rss/news/latest.xml",
       "https://www.livehindustan.com/rss/latest-news.xml" >>

AllFeeds == ENGLISH_RSS_FEEDS \o HINDI_RSS_FEEDS

Languages == {"English", "Hindi"}

FeedsOf(l) == IF l = "English" THEN ENGLISH_RSS_FEEDS ELSE HINDI_RSS_FEEDS

PdfNameOf(l) ==
    IF l = "English" THEN "Unmasked_India_EN.pdf" ELSE "Unmasked_India_HI.pdf"

(***************************************************************************)
(* Generic helpers.                                                        *)
(***************************************************************************)
Range(s) == {s[i] : i \in 1..Len(s)}

Min(a, b) == IF a <= b THEN a ELSE b

SeqsUpTo(S, n) == UNION {[1..k -> S] : k \in 0..n}

RECURSIVE Count(_, _)
Count(x, s) ==
    IF s = <<>> THEN 0
    ELSE (IF Head(s) = x THEN 1 ELSE 0) + Count(x, Tail(s))

\* PySlice with a fault: the slice keeps one element too many
PySlice_OffByOne(s, n) == SubSeq(s, 1, Min(n + 1, Len(s)))

\* s[:n] for n >= 0
PySlice(s, n) == SubSeq(s, 1, Min(n, Len(s)))

\* str.replace(old, new): every occurrence of the token old becomes new
RECURSIVE Replace(_, _, _)
Replace(s, old, new) ==
    IF s = <<>> THEN <<>>
    ELSE (IF Head(s) = old THEN new ELSE <<Head(s)>>)
         \o Replace(Tail(s), old, new)

(***************************************************************************)
(* Python values as the sponsor code sees them: None, a JSON list, or a    *)
(* key that the JSON object does not have.                                 *)
(***************************************************************************)
None      == [tag |-> "None", items |-> <<>>]
Missing   == [tag |-> "missing", items |-> <<>>]
PyList(s) == [tag |-> "list", items |-> s]

\* truth value of a sponsor tier in `if gold_sponsors:` / `if not ...:`
Truthy(v) == v.tag = "list" /\ v.items # <<>>

(***************************************************************************)
(* Feed Fetcher: get_fresh_news                                            *)
(***************************************************************************)
TITLES == << "T1", "T2" >>

\* entry k of the feed at url u
Entry(u, k) ==
    [title   |-> TITLES[((k - 1) % Len(TITLES)) + 1],
     summary |-> "S",
     link    |-> <<u, k>>]

\* a feed as feedparser sees it: parses = FALSE when feedparser.parse(url)
\* raises; n entries; bad = index of the entry whose title / summary / link
\* raises when read (0: none does)
Feeds ==
    { [parses |-> FALSE, n |-> 0, bad |-> 0] } \cup
    { [parses |-> TRUE, n |-> n, bad |-> b] :
        n \in 0..MaxEntries, b \in 0..MaxFailAt }

WellFormedFeed(f) == f.bad <= f.n

\* the inner for loop over feed.entries[:7], from entry k on: appends until
\* an entry raises
RECURSIVE ReadEntries(_, _, _, _)
ReadEntries(u, feed, k, acc) ==
    IF k > Min(feed.n, PerSourceCap) THEN acc
    ELSE IF feed.bad = k THEN acc
    ELSE ReadEntries(u, feed, k + 1,
                     Append(acc, [title   |-> Entry(u, k).title,
                                  summary |-> Entry(u, k).summary,
                                  link    |-> Entry(u, k).link]))

\* the body of the try block for one URL: what it appends to articles
FetchSource(u, feed) ==
    IF ~feed.parses THEN <<>> ELSE ReadEntries(u, feed, 1, <<>>)

\* FetchFeed with a fault: a feed that fails to parse is fetched a second time
FetchFeed_RetryOnFailure ==
    /\ pc = "fetch"
    /\ fi <= Len(rss_urls)
    /\ fetchLog' =
           IF feedWorld[rss_urls[fi]].parses
           THEN Append(fetchLog, rss_urls[fi])
           ELSE Append(Append(fetchLog, rss_urls[fi]), rss_urls[fi])
    /\ articles' = articles \o FetchSource(rss_urls[fi], feedWorld[rss_urls[fi]])
    /\ fi' = fi + 1
    /\ UNCHANGED <<pc, mainVars, sponsorVars, feedWorld, rss_urls, max_articles,
                   run_articles, aiVars, htmlVars, pdfLog>>

\* one iteration of `for url in rss_urls`
FetchFeed ==
    /\ pc = "fetch"
    /\ fi <= Len(rss_urls)
    /\ fetchLog' = Append(fetchLog, rss_urls[fi])
    /\ articles' = articles \o FetchSource(rss_urls[fi], feedWorld[rss_urls[fi]])
    /\ fi' = fi + 1
    /\ UNCHANGED <<pc, mainVars, sponsorVars, feedWorld, rss_urls, max_articles,
                   run_articles, aiVars, htmlVars, pdfLog>>

\* return articles[:max_articles]
FetchReturn ==
    /\ pc = "fetch"
    /\ fi > Len(rss_urls)
    /\ run_articles' = PySlice(articles, max_articles)
    /\ pc' = "fetched"
    /\ UNCHANGED <<mainVars, sponsorVars, feedWorld, rss_urls, max_articles, fi,
                   articles, fetchLog, aiVars, htmlVars, pdfLog>>

(***************************************************************************)
(* Analysis Stage: get_ai_analysis                                         *)
(***************************************************************************)
BODY    == "<body>"
BODY_HI == "<body class=\"lang-hi\">"

\* what response.text may hold
ResponseTexts ==
    { << "<p>summary</p>", "<p class='manthan-point'>question</p>" >>,
      << "<html>", BODY, "<p>summary</p>", "</body>", "</html>" >> }

\* what one iteration meets: generate_content raises, response.text raises,
\* or the call answers with a text
GenOutcomes ==
    { [kind |-> "raise_generate", text |-> <<>>],
      [kind |-> "raise_text", text |-> <<>>] } \cup
    { [kind |-> "ok", text |-> t] : t \in ResponseTexts }

\* f"<h3>{article['title']}</h3>\n{response.text}"
Fragment(title, text) == << "<h3>", title, "</h3>\n" >> \o text

\* AnalyzeArticle with a fault: the heading is appended before response.text is
\* read, so a response whose text raises leaves a partial fragment
AnalyzeArticle_PartialOnTextFailure ==
    /\ pc = "analyze"
    /\ ai <= Len(an_articles)
    /\ \E o \in GenOutcomes :
         /\ gen_seen' = Append(gen_seen, o)
         /\ analyzed_content' =
                IF o.kind = "raise_generate"
                THEN analyzed_content
                ELSE Append(analyzed_content,
                            Fragment(an_articles[ai].title, o.text))
    /\ genLog' = Append(genLog, an_articles[ai].link)
    /\ ai' = ai + 1
    /\ UNCHANGED <<pc, mainVars, sponsorVars, fetchVars, an_articles, language,
                   analyzed_articles, htmlVars, pdfLog>>

\* one iteration of `for article in articles`
AnalyzeArticle ==
    /\ pc = "analyze"
    /\ ai <= Len(an_articles)
    /\ \E o \in GenOutcomes :
         /\ gen_seen' = Append(gen_seen, o)
         /\ analyzed_content' =
                IF o.kind = "ok"
                THEN Append(analyzed_content,
                            Fragment(an_articles[ai].title, o.text))
                ELSE analyzed_content
    /\ genLog' = Append(genLog, an_articles[ai].link)
    /\ ai' = ai + 1
    /\ UNCHANGED <<pc, mainVars, sponsorVars, fetchVars, an_articles, language,
                   analyzed_articles, htmlVars, pdfLog>>

\* return analyzed_content
AnalyzeReturn ==
    /\ pc = "analyze"
    /\ ai > Len(an_articles)
    /\ analyzed_articles' = analyzed_content
    /\ pc' = "analyzed"
    /\ UNCHANGED <<mainVars, sponsorVars, fetchVars, an_articles, language, ai,
                   analyzed_content, gen_seen, genLog, htmlVars, pdfLog>>

(***************************************************************************)
(* Sponsor Loader: load_sponsors                                           *)
(***************************************************************************)
\* data.get(key, []) where the key may be absent
GetOrEmpty(v) == IF v.tag = "missing" THEN PyList(<<>>) ELSE v

\* data.get(key) where the key may be absent
GetOrNone(v) == IF v.tag = "missing" THEN None ELSE v

\* LoadTier with a fault: the emptiness check is missing
LoadTier_NoEmptyCheck(v) == GetOrNone(v)

\* one tier of load_sponsors: the `if not data.get(key, [])` assignment and
\* the data.get(key) of the return statement
LoadTier(v) == GetOrNone(IF ~Truthy(GetOrEmpty(v)) THEN None ELSE v)

\* load_sponsors(): the pair it returns for a sponsors.json
load_sponsors(file) ==
    IF ~file.exists
    THEN <<None, None>>
    ELSE <<LoadTier(file.gold_sponsors), LoadTier(file.silver_sponsors)>>

SponsorPool ==
    { [name |-> "Acme", logo_url |-> "https://x/a.png"],
      [name |-> "Bolt", logo_url |-> "https://x/b.png"] }

SponsorLists == SeqsUpTo(SponsorPool, MaxSponsors)

\* what sponsors.json may hold under one of its two keys
TierJson == {Missing} \cup {PyList(s) : s \in SponsorLists}

NoSponsorsFile ==
    [exists |-> FALSE, gold_sponsors |-> Missing, silver_sponsors |-> Missing]

SponsorFiles ==
    {NoSponsorsFile} \cup
    { [exists |-> TRUE, gold_sponsors |-> g, silver_sponsors |-> v] :
        g \in TierJson, v \in TierJson }

\* gold_sponsors, silver_sponsors = load_sponsors()
LoadSponsors ==
    /\ pc = "load_sponsors"
    /\ sponsor_reads' = sponsor_reads + 1
    /\ gold_sponsors' = load_sponsors(sponsors_file)[1]
    /\ silver_sponsors' = load_sponsors(sponsors_file)[2]
    /\ pc' = "run_start"
    /\ UNCHANGED <<mainVars, sponsors_file, fetchVars, aiVars, htmlVars, pdfLog>>

(***************************************************************************)
(* Page Assembler: generate_newspaper_html                                 *)
(***************************************************************************)
DIV_TOP           == "<div class=\"sponsors-top\">"
DIV_TOP_HIDDEN    == "<div class=\"sponsors-top\" style=\"display:none;\">"
DIV_BOTTOM        == "<div class=\"sponsors-bottom\">"
DIV_BOTTOM_HIDDEN == "<div class=\"sponsors-bottom\" style=\"display:none;\">"
PH_GOLD           == "{{ gold_sponsors_html }}"
PH_SILVER         == "{{ silver_sponsors_html }}"
PH_DATE           == "{{ today_date }}"
PH_ARTICLES       == "{{ articles_html }}"
IMG_OPEN          == "<img src=\""
IMG_ALT           == "\" alt=\""
IMG_CLOSE         == "\">"

Placeholders == {PH_GOLD, PH_SILVER, PH_DATE, PH_ARTICLES}

\* template.html: the four placeholders, the two sponsor containers and a
\* body element
TEMPLATE ==
    << "<html>", BODY,
       DIV_TOP, PH_GOLD, "</div>",
       "<h1>", PH_DATE, "</h1>",
       "<main>", PH_ARTICLES, "</main>",
       DIV_BOTTOM, PH_SILVER, "</div>",
       "</body>", "</html>" >>

TemplateFiles ==
    { [exists |-> FALSE, text |-> <<>>], [exists |-> TRUE, text |-> TEMPLATE] }

\* datetime.now(ist).strftime('%A, %d %B %Y')
Dates == { "Monday, 01 January 2024", "Sunday, 01 November 2026" }

\* f'<img src="{sponsor["logo_url"]}" alt="{sponsor["name"]}">'
SponsorImg(sponsor) ==
    << IMG_OPEN, sponsor.logo_url, IMG_ALT, sponsor.name, IMG_CLOSE >>

\* the for loop that builds gold_sponsors_html / silver_sponsors_html
RECURSIVE SponsorsHtml(_)
SponsorsHtml(sponsors) ==
    IF sponsors = <<>> THEN <<>>
    ELSE SponsorImg(Head(sponsors)) \o SponsorsHtml(Tail(sponsors))

\* "".join([f"<article>{content}</article>" for content in analyzed_articles])
RECURSIVE ArticlesHtml(_)
ArticlesHtml(fragments) ==
    IF fragments = <<>> THEN <<>>
    ELSE << "<article>" >> \o Head(fragments) \o << "</article>" >>
         \o ArticlesHtml(Tail(fragments))

\* the sponsor markup of a tier: empty unless the tier is truthy
TierHtml(tier) == IF Truthy(tier) THEN SponsorsHtml(tier.items) ELSE <<>>

\* HideIfAbsent with a fault: the test is `is None`, so an empty list is shown
HideIfAbsent_NoneOnly(tpl, tier, div, hidden) ==
    IF tier.tag = "list" THEN tpl ELSE Replace(tpl, div, <<hidden>>)

\* the else branch of a tier: hide its container in the template
HideIfAbsent(tpl, tier, div, hidden) ==
    IF Truthy(tier) THEN tpl ELSE Replace(tpl, div, <<hidden>>)

\* if language == "Hindi": final_html.replace('<body>', '<body class="lang-hi">')
TagLanguage(html, language_) ==
    IF language_ = "Hindi" THEN Replace(html, BODY, <<BODY_HI>>) ELSE html

\* the four placeholder replacements, in the order of the code
Substitute(tpl, gold_html, silver_html, date, articles_html) ==
    Replace(Replace(Replace(Replace(tpl, PH_GOLD, gold_html),
                            PH_SILVER, silver_html),
                    PH_DATE, <<date>>),
            PH_ARTICLES, articles_html)

generate_newspaper_html(fragments, gold, silver, language_, tpl, date) ==
    TagLanguage(
        Substitute(
            HideIfAbsent(HideIfAbsent(tpl, gold, DIV_TOP, DIV_TOP_HIDDEN),
                         silver, DIV_BOTTOM, DIV_BOTTOM_HIDDEN),
            TierHtml(gold), TierHtml(silver), date, ArticlesHtml(fragments)),
        language_)

\* final_html = generate_newspaper_html(analyzed, gold, silver, language);
\* open('template.html') raises when the file is absent
GenerateHtml ==
    /\ pc = "analyzed"
    /\ html_calls' = Append(html_calls, [language |-> lang,
                                         gold |-> gold_sponsors,
                                         silver |-> silver_sponsors])
    /\ \E t \in TemplateFiles, d \in Dates :
         IF ~t.exists
         THEN /\ pc' = "crashed"
              /\ crash' = [lang |-> lang, stage |-> "html"]
              /\ UNCHANGED <<template_str, today_date_str, final_html>>
         ELSE /\ template_str' = t.text
              /\ today_date_str' = d
              /\ final_html' = generate_newspaper_html(analyzed_articles,
                                   gold_sponsors, silver_sponsors, lang,
                                   t.text, d)
              /\ pc' = "pdf"
              /\ UNCHANGED crash
    /\ UNCHANGED <<lang, runs, api_key, sponsorVars, fetchVars, aiVars, pdfLog>>

(***************************************************************************)
(* PDF Renderer and the main workflow                                      *)
(***************************************************************************)
\* where main goes after a language's block
AfterRun(l) == IF l = "English" THEN "run_start" ELSE "done"

NextLang(l) == IF l = "English" THEN "Hindi" ELSE l

\* the module-level credential check
Configure ==
    /\ pc = "config"
    /\ IF api_key
       THEN pc' = "load_sponsors" /\ UNCHANGED crash
       ELSE pc' = "crashed" /\ crash' = [lang |-> "", stage |-> "config"]
    /\ UNCHANGED <<lang, runs, api_key, sponsorVars, fetchVars, aiVars,
                   htmlVars, pdfLog>>

\* english_articles = get_fresh_news(ENGLISH_RSS_FEEDS), and the Hindi twin:
\* entry into get_fresh_news with the default max_articles.  The values the
\* previous block left behind are never read again and are dropped here.
StartFetch ==
    /\ pc = "run_start"
    /\ runs' = Append(runs, lang)
    /\ rss_urls' = FeedsOf(lang)
    /\ max_articles' = DefaultMaxArticles
    /\ fi' = 1
    /\ articles' = <<>>
    /\ run_articles' = <<>>
    /\ an_articles' = <<>>
    /\ language' = lang
    /\ ai' = 1
    /\ analyzed_content' = <<>>
    /\ gen_seen' = <<>>
    /\ analyzed_articles' = <<>>
    /\ template_str' = <<>>
    /\ today_date_str' = ""
    /\ final_html' = <<>>
    /\ pc' = "fetch"
    /\ UNCHANGED <<lang, crash, api_key, sponsorVars, feedWorld, fetchLog,
                   genLog, html_calls, pdfLog>>

\* CheckArticles with a fault: the `if english_articles:` guard is missing
CheckArticles_NoGuard ==
    /\ pc = "fetched"
    /\ an_articles' = run_articles
    /\ language' = lang
    /\ ai' = 1
    /\ analyzed_content' = <<>>
    /\ gen_seen' = <<>>
    /\ pc' = "analyze"
    /\ UNCHANGED <<lang, runs, crash, api_key, sponsorVars, fetchVars, genLog,
                   analyzed_articles, htmlVars, pdfLog>>

\* `if english_articles:` / `if hindi_articles:` and, when it holds, entry
\* into get_ai_analysis
CheckArticles ==
    /\ pc = "fetched"
    /\ IF run_articles # <<>>
       THEN /\ an_articles' = run_articles
            /\ language' = lang
            /\ ai' = 1
            /\ analyzed_content' = <<>>
            /\ gen_seen' = <<>>
            /\ pc' = "analyze"
            /\ UNCHANGED lang
       ELSE /\ pc' = AfterRun(lang)
            /\ lang' = NextLang(lang)
            /\ UNCHANGED <<an_articles, language, ai, analyzed_content,
                           gen_seen>>
    /\ UNCHANGED <<runs, crash, api_key, sponsorVars, fetchVars, genLog,
                   analyzed_articles, htmlVars, pdfLog>>

\* convert_html_to_pdf(final_html, name): style.css unreadable or write_pdf
\* failing raises, and nothing in main catches it
ConvertPdf ==
    /\ pc = "pdf"
    /\ \E ok \in BOOLEAN :
         IF ok
         THEN /\ pdfLog' = Append(pdfLog, PdfNameOf(lang))
              /\ pc' = AfterRun(lang)
              /\ lang' = NextLang(lang)
              /\ UNCHANGED crash
         ELSE /\ pc' = "crashed"
              /\ crash' = [lang |-> lang, stage |-> "pdf"]
              /\ UNCHANGED <<pdfLog, lang>>
    /\ UNCHANGED <<runs, api_key, sponsorVars, fetchVars, aiVars, htmlVars>>

(***************************************************************************)
(* Initial states and specifications                                       *)
(***************************************************************************)
NoCrash == [lang |-> "", stage |-> ""]

NoFeed == [parses |-> FALSE, n |-> 0, bad |-> 0]

MainIdle ==
    /\ lang = "English"
    /\ runs = <<>>
    /\ crash = NoCrash
    /\ api_key = TRUE
    /\ pdfLog = <<>>

SponsorsIdle ==
    /\ sponsors_file = NoSponsorsFile
    /\ gold_sponsors = None
    /\ silver_sponsors = None
    /\ sponsor_reads = 0

FetchIdle ==
    /\ feedWorld = [u \in Range(AllFeeds) |-> NoFeed]
    /\ rss_urls = <<>>
    /\ max_articles = DefaultMaxArticles
    /\ fi = 1
    /\ articles = <<>>
    /\ run_articles = <<>>
    /\ fetchLog = <<>>

AnalysisIdle ==
    /\ an_articles = <<>>
    /\ language = "English"
    /\ ai = 1
    /\ analyzed_content = <<>>
    /\ gen_seen = <<>>
    /\ genLog = <<>>
    /\ analyzed_articles = <<>>

HtmlIdle ==
    /\ template_str = <<>>
    /\ today_date_str = ""
    /\ final_html = <<>>
    /\ html_calls = <<>>

\* the feeds the main workflow may meet: unreachable, or MainEntries entries
MainFeeds ==
    { NoFeed, [parses |-> TRUE, n |-> MainEntries, bad |-> 0] }

MainSponsorFiles ==
    { NoSponsorsFile,
      [exists |-> TRUE,
       gold_sponsors |-> PyList(<< [name |-> "Acme",
                                    logo_url |-> "https://x/a.png"] >>),
       silver_sponsors |-> PyList(<<>>)] }

\* the process from its first statement on
Init ==
    /\ pc = "config"
    /\ lang = "English"
    /\ runs = <<>>
    /\ crash = NoCrash
    /\ api_key \in BOOLEAN
    /\ pdfLog = <<>>
    /\ sponsors_file \in MainSponsorFiles
    /\ gold_sponsors = None
    /\ silver_sponsors = None
    /\ sponsor_reads = 0
    /\ feedWorld \in [Range(AllFeeds) -> MainFeeds]
    /\ rss_urls = <<>>
    /\ max_articles = DefaultMaxArticles
    /\ fi = 1
    /\ articles = <<>>
    /\ run_articles = <<>>
    /\ fetchLog = <<>>
    /\ AnalysisIdle
    /\ HtmlIdle

Next ==
    \/ Configure
    \/ LoadSponsors
    \/ StartFetch
    \/ FetchFeed
    \/ FetchReturn
    \/ CheckArticles
    \/ AnalyzeArticle
    \/ AnalyzeReturn
    \/ GenerateHtml
    \/ ConvertPdf

Spec == Init /\ [][Next]_vars

\* get_fresh_news alone, on any source list, feeds and max_articles >= 0
SourceLists == {SubSeq(AllFeeds, 1, k) : k \in 0..MaxSources}

InitFetch ==
    /\ pc = "fetch"
    /\ MainIdle
    /\ SponsorsIdle
    /\ rss_urls \in SourceLists
    /\ feedWorld \in [Range(rss_urls) -> {f \in Feeds : WellFormedFeed(f)}]
    /\ max_articles \in 0..MaxArticlesArg
    /\ fi = 1
    /\ articles = <<>>
    /\ run_articles = <<>>
    /\ fetchLog = <<>>
    /\ AnalysisIdle
    /\ HtmlIdle

NextFetch == FetchFeed \/ FetchReturn

SpecFetch == InitFetch /\ [][NextFetch]_vars

\* get_ai_analysis alone, on any article list
ArticlePool == { Entry(AllFeeds[1], k) : k \in 1..2 }

InitAnalysis ==
    /\ pc = "analyze"
    /\ MainIdle
    /\ SponsorsIdle
    /\ FetchIdle
    /\ an_articles \in SeqsUpTo(ArticlePool, MaxAnalysisIn)
    /\ language \in Languages
    /\ ai = 1
    /\ analyzed_content = <<>>
    /\ gen_seen = <<>>
    /\ genLog = <<>>
    /\ analyzed_articles = <<>>
    /\ HtmlIdle

NextAnalysis == AnalyzeArticle \/ AnalyzeReturn

SpecAnalysis == InitAnalysis /\ [][NextAnalysis]_vars

\* load_sponsors alone, on any sponsors.json
InitSponsors ==
    /\ pc = "load_sponsors"
    /\ MainIdle
    /\ sponsors_file \in SponsorFiles
    /\ gold_sponsors = None
    /\ silver_sponsors = None
    /\ sponsor_reads = 0
    /\ FetchIdle
    /\ AnalysisIdle
    /\ HtmlIdle

NextSponsors == LoadSponsors

SpecSponsors == InitSponsors /\ [][NextSponsors]_vars

\* generate_newspaper_html alone, on any fragments, sponsor tiers and language
Fragments == { Fragment(t, x) : t \in Range(TITLES), x \in ResponseTexts }

TierArgs == {None} \cup {PyList(s) : s \in SponsorLists}

InitHtml ==
    /\ pc = "analyzed"
    /\ lang \in Languages
    /\ runs = <<>>
    /\ crash = NoCrash
    /\ api_key = TRUE
    /\ pdfLog = <<>>
    /\ sponsors_file = NoSponsorsFile
    /\ gold_sponsors \in TierArgs
    /\ silver_sponsors \in TierArgs
    /\ sponsor_reads = 0
    /\ FetchIdle
    /\ an_articles = <<>>
    /\ language = lang
    /\ ai = 1
    /\ analyzed_content = <<>>
    /\ gen_seen = <<>>
    /\ genLog = <<>>
    /\ analyzed_articles \in SeqsUpTo(Fragments, MaxFragments)
    /\ HtmlIdle

NextHtml == GenerateHtml

SpecHtml == InitHtml /\ [][NextHtml]_vars

(***************************************************************************)
(* Helpers of the properties                                               *)
(***************************************************************************)
Last(s) == s[Len(s)]

NoDuplicates(s) == \A i, j \in 1..Len(s) : s[i] = s[j] => i = j

\* s occurs in doc as a contiguous run of tokens
OccursIn(s, doc) ==
    \E k \in 0..(Len(doc) - Len(s)) : SubSeq(doc, k + 1, k + Len(s)) = s

\* the tokens of doc between the first token of `opens` and the first
\* `close` after it
Between(doc, opens, close) ==
    LET starts == {i \in 1..Len(doc) : doc[i] \in opens}
        i      == CHOOSE x \in starts : \A y \in starts : x <= y
        ends   == {j \in (i + 1)..Len(doc) : doc[j] = close}
        j      == CHOOSE x \in ends : \A y \in ends : x <= y
    IN  IF starts = {} \/ ends = {} THEN <<>> ELSE SubSeq(doc, i + 1, j - 1)

\* doc with its first occurrence of token old replaced by token new
ReplaceFirst(doc, old, new) ==
    LET at == {i \in 1..Len(doc) : doc[i] = old}
        i  == CHOOSE x \in at : \A y \in at : x <= y
    IN  IF at = {} THEN doc ELSE [doc EXCEPT ![i] = new]

\* the first PerSourceCap entries of a feed, as articles
FirstEntries(u, feed) ==
    [k \in 1..Min(feed.n, PerSourceCap) |-> Entry(u, k)]

\* the fetch of this source met a failure
SourceFailed(feed) ==
    \/ ~feed.parses
    \/ feed.bad \in 1..Min(feed.n, PerSourceCap)

\* number of articles of a list that come from source u
FromSource(arts, u) == Cardinality({i \in 1..Len(arts) : arts[i].link[1] = u})

(***************************************************************************)
(* Properties of get_fresh_news (SpecFetch)                                *)
(***************************************************************************)
\* what the sources contribute when a failed source contributes nothing and
\* every other source its first entries, in source-list order
RECURSIVE SkippingFailedSources(_, _)
SkippingFailedSources(urls, world) ==
    IF urls = <<>> THEN <<>>
    ELSE (IF SourceFailed(world[Head(urls)])
          THEN <<>>
          ELSE FirstEntries(Head(urls), world[Head(urls)]))
         \o SkippingFailedSources(Tail(urls), world)

\* C2: when get_fresh_news returns, the list it truncates holds nothing of a
\* source whose fetch failed (at parse time or while an entry was read) and
\* exactly the first entries of every other source, in source-list order.
C2_FailedSourceSkippedEntirely ==
    pc = "fetched" => articles = SkippingFailedSources(rss_urls, feedWorld)

\* C3: get_fresh_news returns at most min(7 * number of sources,
\* max_articles) articles, at most 7 of them from any single source.
C3_FetchBounded ==
    pc = "fetched" =>
        /\ Len(run_articles)
               <= Min(PerSourceCap * Len(rss_urls), max_articles)
        /\ \A u \in Range(rss_urls) :
               FromSource(run_articles, u) <= PerSourceCap

\* C3 witness: a feed longer than the per-source cap was read and the final
\* truncation cut the list down to max_articles
C3_Witness ==
    /\ pc = "fetched"
    /\ \E u \in Range(rss_urls) :
           /\ feedWorld[u].n > PerSourceCap
           /\ FromSource(run_articles, u) = PerSourceCap
    /\ Len(articles) > max_articles
    /\ Len(run_articles) = max_articles
    /\ max_articles > PerSourceCap

(***************************************************************************)
(* Properties of get_ai_analysis (SpecAnalysis)                            *)
(***************************************************************************)
\* one whole fragment for each article whose call answered, none for the
\* others, in article order
RECURSIVE FragmentsOfSuccesses(_, _)
FragmentsOfSuccesses(arts, outcomes) ==
    IF arts = <<>> \/ outcomes = <<>> THEN <<>>
    ELSE (IF Head(outcomes).kind = "ok"
          THEN << << "<h3>", Head(arts).title, "</h3>\n" >>
                  \o Head(outcomes).text >>
          ELSE <<>>)
         \o FragmentsOfSuccesses(Tail(arts), Tail(outcomes))

\* C4: the list get_ai_analysis builds and returns holds exactly one whole
\* fragment per article whose generation call succeeded and none for a failed
\* one, in input order.
C4_AnalysisIsOrderedSubsequence ==
    /\ pc = "analyze" =>
           analyzed_content = FragmentsOfSuccesses(an_articles, gen_seen)
    /\ pc = "analyzed" =>
           /\ Len(gen_seen) = Len(an_articles)
           /\ analyzed_articles = FragmentsOfSuccesses(an_articles, gen_seen)

\* C4 witness: a run that returned after a call that raised, a response whose
\* text could not be read, and a later call that succeeded
C4_Witness ==
    /\ pc = "analyzed"
    /\ Len(an_articles) = 3
    /\ gen_seen[1].kind = "raise_generate"
    /\ gen_seen[2].kind = "raise_text"
    /\ gen_seen[3].kind = "ok"
    /\ Len(analyzed_articles) = 1

(***************************************************************************)
(* Properties of load_sponsors (SpecSponsors)                              *)
(***************************************************************************)
\* the tier load_sponsors must return for what the file holds under a key
TierExpected(file, v) ==
    IF ~file.exists \/ v.tag = "missing" \/ v.items = <<>> THEN None ELSE v

\* C5: each tier load_sponsors returns is None or a non-empty list: None when
\* the file is absent, the key is missing or its list is empty, and the
\* file's list unchanged otherwise.
C5_SponsorsNoneOrNonEmpty ==
    pc = "run_start" =>
        /\ gold_sponsors # PyList(<<>>)
        /\ silver_sponsors # PyList(<<>>)
        /\ gold_sponsors = TierExpected(sponsors_file,
                                        sponsors_file.gold_sponsors)
        /\ silver_sponsors = TierExpected(sponsors_file,
                                          sponsors_file.silver_sponsors)

\* C5 witness: a file whose gold list has two sponsors and whose silver list
\* is empty has been loaded
C5_Witness ==
    /\ pc = "run_start"
    /\ sponsors_file.exists
    /\ sponsors_file.silver_sponsors = PyList(<<>>)
    /\ silver_sponsors = None
    /\ gold_sponsors.tag = "list"
    /\ Len(gold_sponsors.items) = 2

(***************************************************************************)
(* Properties of generate_newspaper_html (SpecHtml)                        *)
(***************************************************************************)
\* one image element per sponsor, in list order, nothing in between
RECURSIVE ImagesOf(_)
ImagesOf(sponsors) ==
    IF sponsors = <<>> THEN <<>>
    ELSE << "<img src=\"", Head(sponsors).logo_url, "\" alt=\"",
            Head(sponsors).name, "\">" >>
         \o ImagesOf(Tail(sponsors))

TierAbsent(tier) == tier = None \/ tier = PyList(<<>>)

\* what C6 says of one tier of the document
TierRendered(doc, tier, div, hidden) ==
    /\ (Count(hidden, doc) > 0) <=> TierAbsent(tier)
    /\ Count(div, doc) + Count(hidden, doc) = 1
    /\ Between(doc, {div, hidden}, "</div>") =
           IF TierAbsent(tier) THEN <<>> ELSE ImagesOf(tier.items)

\* C6: in the assembled document a tier's container is hidden exactly when
\* the tier is absent (None or an empty list), and then holds no image; a
\* present tier's container is visible and holds one image element per
\* sponsor (src = logo_url, alt = name) in list order with no separator.
C6_SponsorTiersRendered ==
    pc = "pdf" =>
        /\ TierRendered(final_html, gold_sponsors, DIV_TOP, DIV_TOP_HIDDEN)
        /\ TierRendered(final_html, silver_sponsors, DIV_BOTTOM,
                        DIV_BOTTOM_HIDDEN)
        /\ Count(IMG_OPEN, final_html) =
               (IF TierAbsent(gold_sponsors) THEN 0
                ELSE Len(gold_sponsors.items))
               + (IF TierAbsent(silver_sponsors) THEN 0
                  ELSE Len(silver_sponsors.items))

\* C6 witness: a document assembled with two gold sponsors and an empty
\* silver list
C6_Witness ==
    /\ pc = "pdf"
    /\ gold_sponsors.tag = "list"
    /\ Len(gold_sponsors.items) = 2
    /\ silver_sponsors = PyList(<<>>)
    /\ Count(DIV_BOTTOM_HIDDEN, final_html) = 1

\* every fragment, wrapped in its article container, in input order
RECURSIVE WrappedFragments(_)
WrappedFragments(fragments) ==
    IF fragments = <<>> THEN <<>>
    ELSE << "<article>" >> \o Head(fragments) \o << "</article>" >>
         \o WrappedFragments(Tail(fragments))

\* C7: the assembled document holds the formatted date and every article
\* fragment verbatim (each in an article container, in input order), and no
\* placeholder token is left in it.
C7_DocumentHoldsDateAndFragments ==
    pc = "pdf" =>
        /\ today_date_str \in Range(final_html)
        /\ OccursIn(WrappedFragments(analyzed_articles), final_html)
        /\ Range(final_html) \cap Placeholders = {}

\* the document before the language tagging of lines 120-121
Untagged ==
    Substitute(
        HideIfAbsent(HideIfAbsent(template_str, gold_sponsors, DIV_TOP,
                                  DIV_TOP_HIDDEN),
                     silver_sponsors, DIV_BOTTOM, DIV_BOTTOM_HIDDEN),
        TierHtml(gold_sponsors), TierHtml(silver_sponsors), today_date_str,
        ArticlesHtml(analyzed_articles))

\* C8: for Hindi the document is the untagged document with its top-level
\* body element (the template's, which precedes every placeholder) carrying
\* the lang-hi class and nothing else changed; for English the body element
\* does not carry the class.
C8_OnlyTopLevelBodyTagged ==
    pc = "pdf" =>
        IF lang = "Hindi"
        THEN final_html = ReplaceFirst(Untagged, BODY, BODY_HI)
        ELSE BODY_HI \notin Range(final_html) /\ BODY \in Range(final_html)

(***************************************************************************)
(* Properties of the main workflow (Spec)                                  *)
(***************************************************************************)
Terminated == pc \in {"done", "crashed"}

\* C1: when the process has ended and the English run failed while the page
\* was assembled or the PDF rendered, the Hindi run has taken place.
C1_HindiRunsAfterEnglishRenderFailure ==
    (Terminated /\ crash.lang = "English" /\ crash.stage \in {"html", "pdf"})
        => "Hindi" \in Range(runs)

\* C9: a process that started with the credential and ended without an error
\* has written both PDF files, each exactly once.
C9_BothPdfsWritten ==
    pc = "done" =>
        \A l \in Languages : Count(PdfNameOf(l), pdfLog) = 1

\* the feeds of language l yield at least one article
YieldsArticles(l) ==
    \E u \in Range(FeedsOf(l)) : FetchSource(u, feedWorld[u]) # <<>>

\* C9 amended: a process that ended without an error has written, exactly
\* once, the PDF of each language whose feeds yielded at least one article
\* and no PDF for a language whose feeds yielded none; a run all of whose
\* analyses failed is rendered with an empty article region.
C9_PdfPerLanguageWithArticles ==
    /\ pc = "done" =>
           \A l \in Languages :
               Count(PdfNameOf(l), pdfLog) = IF YieldsArticles(l) THEN 1 ELSE 0
    /\ (pc = "pdf" /\ analyzed_articles = <<>>) =>
           Between(final_html, {"<main>"}, "</main>") = <<>>

\* C9 witness: a process that ended without an error, skipped the English
\* PDF for want of articles and wrote the Hindi one although every analysis
\* of the Hindi run failed
C9_Witness ==
    /\ pc = "done"
    /\ pdfLog = << PdfNameOf("Hindi") >>
    /\ ~YieldsArticles("English")
    /\ gen_seen # <<>>
    /\ analyzed_articles = <<>>

\* the feeds of the runs before the current one
RECURSIVE FeedsOfRuns(_)
FeedsOfRuns(rs) ==
    IF rs = <<>> THEN <<>> ELSE FeedsOf(Head(rs)) \o FeedsOfRuns(Tail(rs))

EarlierRuns == IF runs = <<>> THEN <<>> ELSE SubSeq(runs, 1, Len(runs) - 1)

\* C10: no retries.  Every feed URL of a run is fetched exactly once, in list
\* order; every article is handed to the generation call at most once, in
\* article order; sponsors.json is read exactly once, before either run, and
\* both runs are given the sponsor values that read returned.
C10_NoRetries ==
    /\ runs \in {<<>>, <<"English">>, <<"English", "Hindi">>}
    /\ fetchLog = FeedsOfRuns(EarlierRuns) \o SubSeq(rss_urls, 1, fi - 1)
    /\ runs # <<>> => rss_urls = FeedsOf(Last(runs))
    /\ pc \in {"fetched", "analyze", "analyzed", "pdf", "done"} =>
           fetchLog = FeedsOfRuns(runs)
    /\ NoDuplicates(genLog)
    /\ Len(genLog) >= ai - 1
    /\ \A i \in 1..(ai - 1) :
           genLog[Len(genLog) - (ai - 1) + i] = an_articles[i].link
    /\ pc \in {"analyzed", "pdf"} => ai = Len(run_articles) + 1
    /\ pc \in {"config", "load_sponsors"} =>
           sponsor_reads = 0 /\ runs = <<>> /\ fetchLog = <<>>
    /\ pc \notin {"config", "load_sponsors"} /\ crash.stage # "config" =>
           sponsor_reads = 1
    /\ \A i \in 1..Len(html_calls) :
           /\ html_calls[i].language \in Range(runs)
           /\ html_calls[i].gold = load_sponsors(sponsors_file)[1]
           /\ html_calls[i].silver = load_sponsors(sponsors_file)[2]
           /\ html_calls[i].gold = html_calls[1].gold
           /\ html_calls[i].silver = html_calls[1].silver

\* C10 witness: a process that ended after both runs fetched all their feeds,
\* analysed articles and assembled a page with a loaded gold tier
C10_Witness ==
    /\ pc = "done"
    /\ Len(fetchLog) = 6
    /\ Len(html_calls) = 2
    /\ Len(genLog) >= 4
    /\ Truthy(gold_sponsors)

====
